---- MODULE Spec2Model ----
(***************************************************************************)
(* Portfolio tracker (src/app.py): the session state of one Streamlit      *)
(* session (full_data, current_profile, init_load), the remote JSON bin,   *)
(* the market-data adapter and the 60 s quote cache, with one action per   *)
(* script run that a user interaction triggers.  A script run that ends in *)
(* st.rerun() is modelled together with the re-run it triggers, so every   *)
(* state of the model is a state in which the page waits for the user.     *)
(***************************************************************************)
EXTENDS Integers, Sequences, FiniteSets, TLC

VARIABLES
    full_data,        \* st.session_state.full_data : [profiles |-> dict]
    current_profile,  \* st.session_state.current_profile
    init_load,        \* 'init_load' in st.session_state
    remote,           \* the "record" held by the JSON bin
    has_creds,        \* API_KEY and BIN_ID are both configured
    market,           \* what the market-data adapter answers, per ticker
    quote_cache,      \* st.cache_data of get_stock_info_cached, per ticker
    currency_mode,    \* the radio of line 184
    fx,               \* what the FX adapter answers for "KRW=X"
    ex_rate,          \* get_exchange_rate() as the script runs see it (ttl 300)
    op,               \* the last interaction handled ("refresh again": a
                      \* refresh that follows a refresh)
    ret               \* what its handler returned or reported

vars == <<full_data, current_profile, init_load, remote, has_creds,
          market, quote_cache, currency_mode, fx, ex_rate, op, ret>>

\* the display settings of the sidebar
display == <<currency_mode, fx, ex_rate>>

----------------------------------------------------------------------------
\* Bounds of the model.

\* holdings a profile may reach through add / batch add
MaxLen == 2

\* the same, in the session that has every handler
SessionLen == 1
\* profiles the create button may reach
MaxProfiles == 2
\* lines of a pasted batch
MaxRows == 2

----------------------------------------------------------------------------
\* Python values that have no TLA+ counterpart.

\* None as a profile name (selectbox over no options) / as a dict key
PyNone == "<None>"
\* None as a number (a price that is null)
NoneNum == 0 - 1
\* float('nan'): a missing CSV cell, a null price read through a DataFrame
NaN == 0 - 2
\* a CSV cell that float() cannot parse
BadNum == 0 - 3
\* a key that is absent from a dict (so that .get returns its default)
Missing == 0 - 4

----------------------------------------------------------------------------
\* Python dicts keep insertion order: a dict is a sequence of [k, v] entries
\* with distinct keys.

DictKeys(d) == [i \in 1..Len(d) |-> d[i].k]

KeySet(d) == {d[i].k : i \in 1..Len(d)}

DictHas(d, key) == key \in KeySet(d)

\* d.get(key, default)
DictGet(d, key, default) ==
    IF DictHas(d, key)
        THEN d[CHOOSE i \in 1..Len(d) : d[i].k = key].v
        ELSE default

\* d[key] = value
DictSet(d, key, value) ==
    IF DictHas(d, key)
        THEN [i \in 1..Len(d) |-> IF d[i].k = key THEN [k |-> key, v |-> value] ELSE d[i]]
        ELSE Append(d, [k |-> key, v |-> value])

\* a deletion that removes the first key instead of the named one
DictDelFirst(d, key) == Tail(d)

\* del d[key]   (only called with key in d)
DictDel(d, key) == SelectSeq(d, LAMBDA e : e.k # key)

----------------------------------------------------------------------------
\* Tickers are strings, modelled as sequences of characters.

IsSpace(c) == c = " "

UpperChar(c) ==
    CASE c = "a" -> "A"
      [] c = "b" -> "B"
      [] OTHER -> c

RECURSIVE LStrip(_)
LStrip(s) == IF s # <<>> /\ IsSpace(Head(s)) THEN LStrip(Tail(s)) ELSE s

RECURSIVE RStrip(_)
RStrip(s) ==
    IF s # <<>> /\ IsSpace(s[Len(s)]) THEN RStrip(SubSeq(s, 1, Len(s) - 1)) ELSE s

\* str.strip()
Strip(s) == RStrip(LStrip(s))

\* str.upper()
Upper(s) == [i \in 1..Len(s) |-> UpperChar(s[i])]

\* a normalisation that forgets to trim
NormalizeNoStrip(t) == Upper(t)

\* ticker.strip().upper()
NormalizeTicker(t) == Upper(Strip(t))

----------------------------------------------------------------------------
\* Market capitalisation in USD is the pair [b, r] = b * 10^9 + r with
\* 0 <= r < 10^9, so that the thresholds of the classifier stay in range.

Billion == 1000000000

MegaBillions == 200

LargeBillions == 10

MidBillions == 2

\* 0.3 billions, in tenths of a billion
SmallTenths == 3

Cap(b, r) == [b |-> b, r |-> r]

\* info['marketCap'] is None / the key is absent
CapNone == [b |-> NoneNum, r |-> 0]

CapMissing == [b |-> Missing, r |-> 0]

\* a classifier whose Mega bound is exclusive
classify_market_cap_strict(market_cap) ==
    IF market_cap = CapNone \/ market_cap = Cap(0, 0) THEN "Unknown"
    ELSE IF market_cap.b > MegaBillions
               \/ (market_cap.b = MegaBillions /\ market_cap.r > 0) THEN "Mega Cap"
    ELSE IF market_cap.b >= LargeBillions THEN "Large Cap"
    ELSE IF market_cap.b >= MidBillions THEN "Mid Cap"
    ELSE IF market_cap.b >= 1 \/ market_cap.r >= SmallTenths * (Billion \div 10)
        THEN "Small Cap"
    ELSE "Micro Cap"

\* classify_market_cap: `not market_cap` is None or 0
classify_market_cap(market_cap) ==
    IF market_cap = CapNone \/ market_cap = Cap(0, 0) THEN "Unknown"
    ELSE IF market_cap.b >= MegaBillions THEN "Mega Cap"
    ELSE IF market_cap.b >= LargeBillions THEN "Large Cap"
    ELSE IF market_cap.b >= MidBillions THEN "Mid Cap"
    ELSE IF market_cap.b >= 1 \/ market_cap.r >= SmallTenths * (Billion \div 10)
        THEN "Small Cap"
    ELSE "Micro Cap"

----------------------------------------------------------------------------
\* The market-data adapter (yfinance).  One answer of the adapter for a
\* ticker says which call raises, and what the three price tiers hold:
\*   raises     "none" | "fast_info" | "history" | "info"
\*   last_price fast_info['last_price']         (NoneNum: none)
\*   hist       the closes of history(1d, 1m)   (<<>>: hist.empty)
\*   info       stock.info: currentPrice, sector, marketCap (Missing: no key)

SectorMissing == "<missing>"

Answer(raises, last_price, hist, currentPrice, sector, marketCap) ==
    [raises |-> raises, last_price |-> last_price, hist |-> hist,
     info |-> [currentPrice |-> currentPrice, sector |-> sector,
               marketCap |-> marketCap]]

\* dict.get(key, default) on stock.info for a numeric field
GetNum(v, default) == IF v = Missing THEN default ELSE v

Invalid == [valid |-> FALSE]

\* the call of fetch_stock_data that raises, if any, given the path taken
FetchRaises(a) ==
    \/ a.raises = "fast_info"
    \/ a.raises = "history" /\ a.last_price = NoneNum
    \/ a.raises = "info"

\* the price tiers of fetch_stock_data, lines 69-72
FetchPrice(a) ==
    IF a.last_price # NoneNum THEN a.last_price
    ELSE IF a.hist # <<>> THEN a.hist[Len(a.hist)]
    ELSE GetNum(a.info.currentPrice, 0)

\* a fetch that reports a quote even when the adapter raised
fetch_stock_data_always_valid(a) ==
    [valid |-> TRUE,
     current_price |-> FetchPrice(a),
     sector |-> IF a.info.sector = SectorMissing THEN "Others" ELSE a.info.sector,
     market_cap_class |-> classify_market_cap(
         IF a.info.marketCap = CapMissing THEN Cap(0, 0) ELSE a.info.marketCap)]

\* fetch_stock_data(ticker), given the adapter's answer a for the ticker
fetch_stock_data(a) ==
    IF FetchRaises(a) THEN Invalid
    ELSE [valid |-> TRUE,
          current_price |-> FetchPrice(a),
          sector |-> IF a.info.sector = SectorMissing THEN "Others" ELSE a.info.sector,
          market_cap_class |-> classify_market_cap(
              IF a.info.marketCap = CapMissing THEN Cap(0, 0) ELSE a.info.marketCap)]

\* all three price tiers are unavailable
NoPriceTier(a) ==
    /\ a.last_price = NoneNum
    /\ a.hist = <<>>
    /\ a.info.currentPrice \in {Missing, NoneNum}

----------------------------------------------------------------------------
\* The FX adapter: yf.Ticker("KRW=X").fast_info either raises or is a mapping
\* whose 'last_price' is a rate, is None (NoneNum) or is absent (Missing).

DefaultRate == 1400

FxAnswer(raises, last_price) == [raises |-> raises, last_price |-> last_price]

\* get_exchange_rate(), given the adapter's answer a (lines 53-54)
get_exchange_rate(a) ==
    IF a.raises THEN DefaultRate ELSE GetNum(a.last_price, DefaultRate)

\* the adapter quotes 1300 won for a dollar
FxLive == FxAnswer(FALSE, 1300)

----------------------------------------------------------------------------
\* Holdings and the active profile.

Holding(ticker, avg, qty, price, sector, cls) ==
    [Ticker |-> ticker, AvgPrice |-> avg, Quantity |-> qty,
     CurrentPrice |-> price, Sector |-> sector, MarketCapClass |-> cls]

\* get_current_portfolio()
get_current_portfolio(fd, cur) == DictGet(fd.profiles, cur, <<>>)

\* an update that replaces the whole map by the one profile
update_current_portfolio_only(fd, cur, new_list) ==
    [fd EXCEPT !.profiles = <<[k |-> cur, v |-> new_list]>>]

\* update_current_portfolio(new_list)
update_current_portfolio(fd, cur, new_list) ==
    [fd EXCEPT !.profiles = DictSet(@, cur, new_list)]

\* what the adapter answers for ticker t; a symbol it does not know raises
MarketAnswer(mkt, t) ==
    IF t \in DOMAIN mkt THEN mkt[t]
    ELSE Answer("fast_info", NoneNum, <<>>, Missing, SectorMissing, CapMissing)

\* get_stock_info_cached(t): the cached value while it has not expired
get_stock_info_cached(cache, mkt, t) ==
    IF t \in DOMAIN cache THEN cache[t] ELSE fetch_stock_data(MarketAnswer(mkt, t))

\* the cache after get_stock_info_cached(t)
CacheAfter(cache, mkt, t) ==
    [x \in DOMAIN cache \cup {t} |->
        IF x \in DOMAIN cache THEN cache[x] ELSE fetch_stock_data(MarketAnswer(mkt, t))]

\* float(x) raises ValueError
FloatRaises(x) == x = BadNum

\* an add that appends whether or not the quote is valid
add_stock_unchecked(fd, cur, cache, mkt, ticker, avg_price, qty) ==
    LET t == NormalizeTicker(ticker)
        info == get_stock_info_cached(cache, mkt, t)
    IN  [fd |-> update_current_portfolio(fd, cur,
                   Append(get_current_portfolio(fd, cur),
                          Holding(t, avg_price, qty,
                                  IF info.valid THEN info.current_price ELSE NoneNum,
                                  "Others", "Unknown"))),
         cache |-> CacheAfter(cache, mkt, t),
         result |-> "True"]

\* add_stock(ticker, avg_price, qty): the store and cache it leaves and what
\* it returns ("True", "False") or that it raised ("raise")
add_stock(fd, cur, cache, mkt, ticker, avg_price, qty) ==
    LET t == NormalizeTicker(ticker)
        info == get_stock_info_cached(cache, mkt, t)
        cache2 == CacheAfter(cache, mkt, t)
    IN  IF ~info.valid THEN [fd |-> fd, cache |-> cache2, result |-> "False"]
        ELSE IF FloatRaises(avg_price) \/ FloatRaises(qty)
            THEN [fd |-> fd, cache |-> cache2, result |-> "raise"]
        ELSE [fd |-> update_current_portfolio(fd, cur,
                        Append(get_current_portfolio(fd, cur),
                               Holding(t, avg_price, qty, info.current_price,
                                       info.sector, info.market_cap_class))),
              cache |-> cache2,
              result |-> "True"]

\* the generator of process_csv line 142, row by row: st is the store, the
\* cache, the count so far and whether a row raised
RECURSIVE CsvRows(_, _, _, _)
CsvRows(st, cur, mkt, rows) ==
    IF rows = <<>> \/ st.raised THEN st
    ELSE LET r == add_stock(st.fd, cur, st.cache, mkt,
                            Head(rows).Ticker, Head(rows).Price, Head(rows).Qty)
         IN  CsvRows([fd |-> r.fd, cache |-> r.cache,
                      cnt |-> IF r.result = "True" THEN st.cnt + 1 ELSE st.cnt,
                      raised |-> r.result = "raise"],
                     cur, mkt, Tail(rows))

\* process_csv(txt), txt read by pandas into rows; an empty text makes
\* read_csv raise.  report is the count shown, or "error"
process_csv(fd, cur, cache, mkt, rows) ==
    IF rows = <<>> THEN [fd |-> fd, cache |-> cache, report |-> "error", cnt |-> 0]
    ELSE LET st == CsvRows([fd |-> fd, cache |-> cache, cnt |-> 0, raised |-> FALSE],
                           cur, mkt, rows)
         IN  [fd |-> st.fd, cache |-> st.cache,
              report |-> IF st.raised THEN "error" ELSE "count",
              cnt |-> st.cnt]

\* a refresh that reads through the add-path cache
refresh_quote_cached(cache, mkt, t) == get_stock_info_cached(cache, mkt, t)

\* the quote refresh_prices uses for ticker t (line 128)
refresh_quote(cache, mkt, t) == fetch_stock_data(MarketAnswer(mkt, t))

\* a refresh that also resets the cost basis
refresh_item_reset(item, new_info) ==
    IF new_info.valid
        THEN [item EXCEPT !.CurrentPrice = new_info.current_price,
                          !.AvgPrice = new_info.current_price]
        ELSE item

\* the body of the loop of refresh_prices for one item (lines 129-132)
refresh_item(item, new_info) ==
    IF new_info.valid
        THEN [item EXCEPT !.CurrentPrice = new_info.current_price,
                          !.Sector = new_info.sector,
                          !.MarketCapClass = new_info.market_cap_class]
        ELSE item

\* a refresh that starts updated_list from the live list
refresh_list_aliased(current_list, cache, mkt) ==
    current_list \o
    [i \in 1..Len(current_list) |->
        refresh_item(current_list[i], refresh_quote(cache, mkt, current_list[i].Ticker))]

\* updated_list of refresh_prices
refresh_list(current_list, cache, mkt) ==
    [i \in 1..Len(current_list) |->
        refresh_item(current_list[i], refresh_quote(cache, mkt, current_list[i].Ticker))]

\* refresh_prices(): the store it leaves
refresh_prices(fd, cur, cache, mkt) ==
    update_current_portfolio(fd, cur,
        refresh_list(get_current_portfolio(fd, cur), cache, mkt))

----------------------------------------------------------------------------
\* The remote JSON bin.  Its record is {"portfolio": [...]} (kind "legacy"),
\* {"profiles": {...}} (kind "profiles") or holds neither key (kind "other").

LegacyDoc(list) == [kind |-> "legacy", portfolio |-> list, profiles |-> <<>>]

ProfilesDoc(d) == [kind |-> "profiles", portfolio |-> <<>>, profiles |-> d]

OtherDoc == [kind |-> "other", portfolio |-> <<>>, profiles |-> <<>>]

DefaultData == [profiles |-> <<[k |-> "Default", v |-> <<>>]>>]

\* how a request ends: HTTP 200, another status, or an exception
NetOutcomes == {"ok", "status", "raise"}

\* a PUT may also raise after the bin has stored the body (response lost)
SaveOutcomes == NetOutcomes \cup {"lost"}

\* a load that takes a legacy record for any other record
load_data_from_cloud_no_legacy(creds, net, rem) ==
    IF ~creds THEN [truthy |-> FALSE, data |-> DefaultData]
    ELSE IF net # "ok" THEN [truthy |-> TRUE, data |-> DefaultData]
    ELSE IF rem.kind = "profiles"
        THEN [truthy |-> TRUE, data |-> [profiles |-> rem.profiles]]
    ELSE [truthy |-> TRUE, data |-> DefaultData]

\* a load that adopts a profiles map only when it has a profile
load_data_from_cloud_checked(creds, net, rem) ==
    IF ~creds THEN [truthy |-> FALSE, data |-> DefaultData]
    ELSE IF net # "ok" THEN [truthy |-> TRUE, data |-> DefaultData]
    ELSE IF rem.kind = "legacy"
        THEN [truthy |-> TRUE,
              data |-> [profiles |-> <<[k |-> "Default", v |-> rem.portfolio]>>]]
    ELSE IF rem.kind = "profiles" /\ rem.profiles # <<>>
        THEN [truthy |-> TRUE, data |-> [profiles |-> rem.profiles]]
    ELSE [truthy |-> TRUE, data |-> DefaultData]

\* load_data_from_cloud(): {} (falsy) without credentials, else a document
load_data_from_cloud(creds, net, rem) ==
    IF ~creds THEN [truthy |-> FALSE, data |-> DefaultData]
    ELSE IF net # "ok" THEN [truthy |-> TRUE, data |-> DefaultData]
    ELSE IF rem.kind = "legacy"
        THEN [truthy |-> TRUE,
              data |-> [profiles |-> <<[k |-> "Default", v |-> rem.portfolio]>>]]
    ELSE IF rem.kind = "profiles"
        THEN [truthy |-> TRUE, data |-> [profiles |-> rem.profiles]]
    ELSE [truthy |-> TRUE, data |-> DefaultData]

\* json.dumps writes the key None as "null"
JsonKey(key) == IF key = PyNone THEN "null" ELSE key

\* a number json.dumps refuses (allow_nan=False)
HoldingHasNaN(h) == NaN \in {h.AvgPrice, h.Quantity, h.CurrentPrice}

DataHasNaN(fd) ==
    \E i \in 1..Len(fd.profiles) :
        \E j \in 1..Len(fd.profiles[i].v) : HoldingHasNaN(fd.profiles[i].v[j])

\* the body of the PUT for full_data
JsonBody(fd) ==
    ProfilesDoc([i \in 1..Len(fd.profiles) |->
                    [k |-> JsonKey(fd.profiles[i].k), v |-> fd.profiles[i].v]])

\* a save that takes any answer of the bin for a success
save_data_to_cloud_any_status(creds, net, fd) ==
    creds /\ ~DataHasNaN(fd) /\ net \in {"ok", "status"}

\* save_data_to_cloud(full_data): what it returns
save_data_to_cloud(creds, net, fd) == creds /\ ~DataHasNaN(fd) /\ net = "ok"

\* the remote record after save_data_to_cloud(full_data): the PUT replaces
\* the whole record or does nothing
RemoteAfterSave(creds, net, fd, rem) ==
    IF creds /\ ~DataHasNaN(fd) /\ net \in {"ok", "lost"} THEN JsonBody(fd) ELSE rem

----------------------------------------------------------------------------
\* Sidebar: profile selection, creation and deletion.

\* a selectbox that keeps a name that is no longer an option
SelectboxKeep(fd, cur) == cur

\* lines 153-157: the selectbox shows current_profile when it is a key, else
\* the first key (None when there is no option), and the session follows it
SelectboxSync(fd, cur) ==
    IF DictHas(fd.profiles, cur) THEN cur
    ELSE IF fd.profiles = <<>> THEN PyNone
    ELSE fd.profiles[1].k

\* a create button that does not look for the name in the map
create_profile_overwrite(fd, cur, new_p) ==
    IF new_p # ""
        THEN [fd |-> [fd EXCEPT !.profiles = DictSet(@, new_p, <<>>)], cur |-> new_p]
        ELSE [fd |-> fd, cur |-> cur]

\* lines 161-165: the create button with the name typed
create_profile(fd, cur, new_p) ==
    IF new_p # "" /\ ~DictHas(fd.profiles, new_p)
        THEN [fd |-> [fd EXCEPT !.profiles = DictSet(@, new_p, <<>>)], cur |-> new_p]
        ELSE [fd |-> fd, cur |-> cur]

\* a delete button shown whenever there is a profile
delete_shown_any(fd) == Len(fd.profiles) > 0

\* line 166: the delete button is shown
delete_shown(fd) == Len(fd.profiles) > 1

\* lines 167-168: the delete button pressed
delete_profile(fd, cur) ==
    LET d == DictDel(fd.profiles, cur)
    IN  [fd |-> [fd EXCEPT !.profiles = d],
         cur |-> IF d = <<>> THEN PyNone ELSE d[1].k]

----------------------------------------------------------------------------
\* The dashboard (lines 207-230).  A cell of the DataFrame is a float: a
\* fraction n/d (d = 1 for the amounts, which are integers in the model),
\* or one of the IEEE values inf, -inf and nan.

Frac(n, d) == [k |-> "num", n |-> n, d |-> d]

FloatInf == [k |-> "inf", n |-> 0, d |-> 0]

FloatNegInf == [k |-> "-inf", n |-> 0, d |-> 0]

FloatNaN == [k |-> "nan", n |-> 0, d |-> 0]

\* a stored number as a cell of a float column (None and nan are nan there)
Cell(x) == IF x \in {NoneNum, NaN} THEN FloatNaN ELSE Frac(x, 1)

\* a * b and a - b on amounts
CellMul(a, b) == IF a.k = "num" /\ b.k = "num" THEN Frac(a.n * b.n, 1) ELSE FloatNaN

CellSub(a, b) == IF a.k = "num" /\ b.k = "num" THEN Frac(a.n - b.n, 1) ELSE FloatNaN

\* a / b on amounts: pandas gives inf, -inf or nan for a zero divisor
SeriesDiv(a, b) ==
    IF a.k # "num" \/ b.k # "num" THEN FloatNaN
    ELSE IF b.n # 0 THEN Frac(a.n, b.n)
    ELSE IF a.n > 0 THEN FloatInf
    ELSE IF a.n < 0 THEN FloatNegInf
    ELSE FloatNaN

\* f * 100
Times100(f) == IF f.k = "num" THEN Frac(f.n * 100, f.d) ELSE f

\* line 211
Invested_USD(h) == CellMul(Cell(h.AvgPrice), Cell(h.Quantity))

\* line 212
Value_USD(h) == CellMul(Cell(h.CurrentPrice), Cell(h.Quantity))

\* line 213
PnL_USD(h) == CellSub(Value_USD(h), Invested_USD(h))

\* line 214: df['Return (%)'], row by row
Return_pct(h) == Times100(SeriesDiv(PnL_USD(h), Invested_USD(h)))

\* Series.sum() of a column of amounts (nan cells are skipped)
SeriesSum(col) ==
    LET f[i \in 0..Len(col)] ==
            IF i = 0 THEN 0
            ELSE f[i - 1] + (IF col[i].k = "num" THEN col[i].n ELSE 0)
    IN  Frac(f[Len(col)], 1)

Invested_USD_col(list) == [i \in 1..Len(list) |-> Invested_USD(list[i])]

PnL_USD_col(list) == [i \in 1..Len(list) |-> PnL_USD(list[i])]

Value_USD_col(list) == [i \in 1..Len(list) |-> Value_USD(list[i])]

\* line 230
tot_ret(list) ==
    IF SeriesSum(Invested_USD_col(list)) # Frac(0, 1)
        THEN Times100(SeriesDiv(SeriesSum(PnL_USD_col(list)),
                                SeriesSum(Invested_USD_col(list))))
        ELSE Frac(0, 1)

\* line 218
DisplayRate(mode, rate) == IF mode = "KRW (₩)" THEN rate ELSE 1

\* the script run raises before the table is drawn: a column of None only
\* stays a column of objects, and None * number is a TypeError (line 212);
\* so is column * None when get_exchange_rate() gave None (line 222)
DashboardRaises(list, mode, rate) ==
    \/ \A i \in 1..Len(list) : list[i].CurrentPrice = NoneNum
    \/ DisplayRate(mode, rate) = NoneNum

\* what one row of the dashboard shows (lines 211-224)
DashboardRow(h, rate) ==
    [Ticker |-> h.Ticker,
     Return |-> Return_pct(h),
     Invested_Disp |-> CellMul(Invested_USD(h), Cell(rate)),
     Value_Disp |-> CellMul(Value_USD(h), Cell(rate)),
     PnL_Disp |-> CellMul(PnL_USD(h), Cell(rate))]

\* the rows and the metrics of lines 227-230
dashboard(list, mode, rate) ==
    [rows |-> [i \in 1..Len(list) |-> DashboardRow(list[i], DisplayRate(mode, rate))],
     tot_inv |-> CellMul(SeriesSum(Invested_USD_col(list)), Cell(DisplayRate(mode, rate))),
     tot_val |-> CellMul(SeriesSum(Value_USD_col(list)), Cell(DisplayRate(mode, rate))),
     tot_pnl |-> CellMul(SeriesSum(PnL_USD_col(list)), Cell(DisplayRate(mode, rate))),
     tot_ret |-> tot_ret(list)]

----------------------------------------------------------------------------
\* The editable table (lines 306-371).  edited is edited_df: the rows the
\* editor returns, each with the index of the row of df it came from.

EditorRow(list, i) ==
    [index |-> i, Ticker |-> list[i].Ticker,
     Avg |-> list[i].AvgPrice, Qty |-> list[i].Quantity]

\* edit_df
EditorRows(list) == [i \in 1..Len(list) |-> EditorRow(list, i)]

\* the user deletes the rows whose index is in gone
RowsDeleted(list, gone) == SelectSeq(EditorRows(list), LAMBDA r : r.index \notin gone)

\* the user types value into one cost-basis cell of row i
CellEdited(list, i, field, value) ==
    [EditorRows(list) EXCEPT ![i] =
        IF field = "Avg" THEN [@ EXCEPT !.Avg = value] ELSE [@ EXCEPT !.Qty = value]]

\* float(x) of a cell of the DataFrame (None is held as NaN there)
PyFloat(x) == IF x = NoneNum THEN NaN ELSE x

\* a write-back that finds the metadata by ticker (first lot with that ticker)
edit_write_back_by_ticker(list, edited) ==
    [j \in 1..Len(edited) |->
        LET o == list[CHOOSE i \in 1..Len(list) :
                        /\ list[i].Ticker = edited[j].Ticker
                        /\ \A i2 \in 1..(i - 1) : list[i2].Ticker # edited[j].Ticker]
        IN  Holding(edited[j].Ticker, PyFloat(edited[j].Avg), PyFloat(edited[j].Qty),
                    PyFloat(o.CurrentPrice), o.Sector, o.MarketCapClass)]

\* a write-back that stores the prices in the display currency
edit_write_back_displayed(list, edited) ==
    [j \in 1..Len(edited) |->
        LET o == list[edited[j].index]
        IN  Holding(edited[j].Ticker,
                    PyFloat(edited[j].Avg) * DisplayRate(currency_mode, ex_rate),
                    PyFloat(edited[j].Qty),
                    PyFloat(o.CurrentPrice) * DisplayRate(currency_mode, ex_rate),
                    o.Sector, o.MarketCapClass)]

\* new_portfolio of lines 331-367 (every row of edited_df has its index in df)
edit_write_back(list, edited) ==
    [j \in 1..Len(edited) |->
        LET o == list[edited[j].index]
        IN  Holding(edited[j].Ticker, PyFloat(edited[j].Avg), PyFloat(edited[j].Qty),
                    PyFloat(o.CurrentPrice), o.Sector, o.MarketCapClass)]

----------------------------------------------------------------------------
\* The inputs the model draws from.

Tickers == {<<"A">>, <<"B">>}

\* what the user types as a ticker
RawTickers == {<<" ", "a", " ">>, <<"b">>}

\* a quote with a last traded price
AnsLive == Answer("none", 1, <<>>, 1, "Tech", Cap(250, 0))

\* no last price, but an intraday history
AnsHist == Answer("none", NoneNum, <<3, 2>>, Missing, "Energy", Cap(5, 0))

\* no price in any tier, and no fundamentals
AnsNoTier == Answer("none", NoneNum, <<>>, Missing, SectorMissing, CapMissing)

\* the adapter raises
AnsRaise == Answer("fast_info", NoneNum, <<>>, Missing, SectorMissing, CapMissing)

\* (avg price, quantity) typed into the number inputs
AddArgs == {<<1, 1>>, <<2, 0>>}

\* the rows of a pasted text as read_csv reads them: a price cell is a
\* number, missing (NaN) or not a number; a missing quantity is NaN
CsvRowSet(raws) ==
    {[Ticker |-> t, Price |-> pr, Qty |-> q] :
        t \in raws, pr \in {1, NaN, BadNum}, q \in {1, NaN}}

\* the texts of at most n lines over the rows in rowset
CsvTexts(rowset, n) == UNION {[1..m -> rowset] : m \in 0..n}

\* the names typed into the create box
NameInputs == {"", "Default", "P"}

H0 == Holding(<<"A">>, 1, 1, 2, "Tech", "Mega Cap")

\* the record the bin holds when the session starts
InitRemoteDocs ==
    {OtherDoc,
     LegacyDoc(<<H0>>),
     ProfilesDoc(<<>>),
     ProfilesDoc(<<[k |-> "P", v |-> <<H0>>]>>)}

----------------------------------------------------------------------------
\* The session.

\* a new session, before its first script run, with the bin holding one of
\* docs and the market answering with one of answers for each of tickers;
\* without credentials there is no bin to speak of
InitSession(docs, tickers, answers, fxs) ==
    /\ currency_mode = "USD ($)"
    /\ fx \in fxs
    /\ ex_rate = NoneNum
    /\ full_data = DefaultData
    /\ current_profile = "Default"
    /\ init_load = FALSE
    /\ has_creds \in BOOLEAN
    /\ remote \in IF has_creds THEN docs ELSE {OtherDoc}
    /\ market \in [tickers -> answers]
    /\ quote_cache = <<>>
    /\ op = "init"
    /\ ret = "None"

InitWith(docs, tickers, answers) == InitSession(docs, tickers, answers, {FxLive})

\* lines 89-96 and the sidebar of the first script run, the request of the
\* load ending as net
StartupWith(net) ==
    /\ ~init_load
    /\ LET cloud_data == load_data_from_cloud(has_creds, net, remote)
           fd == IF cloud_data.truthy THEN cloud_data.data ELSE full_data
       IN  /\ full_data' = fd
           /\ current_profile' = SelectboxSync(fd, current_profile)
    /\ init_load' = TRUE
    /\ op' = "startup" /\ ret' = "None"
    /\ ex_rate' = get_exchange_rate(fx)
    /\ UNCHANGED <<remote, has_creds, market, quote_cache, currency_mode, fx>>

Startup == \E net \in NetOutcomes : StartupWith(net)

\* lines 154-157: the user picks another profile
SelectProfile ==
    /\ init_load
    /\ \E sel_prof \in KeySet(full_data.profiles) :
        /\ sel_prof # current_profile
        /\ current_profile' = sel_prof
    /\ op' = "select" /\ ret' = "None"
    /\ UNCHANGED <<full_data, init_load, remote, has_creds, market, quote_cache>>
    /\ UNCHANGED display

\* lines 160-165: the create button with new_p typed, then the re-run's sidebar
CreateNamed(new_p) ==
    /\ op' = "create"
    /\ init_load
    /\ LET r == create_profile(full_data, current_profile, new_p)
       IN  /\ Len(r.fd.profiles) <= MaxProfiles
           /\ ret' = IF r.fd = full_data THEN "ignored" ELSE "created"
           /\ full_data' = r.fd
           /\ current_profile' = SelectboxSync(r.fd, r.cur)
    /\ UNCHANGED <<init_load, remote, has_creds, market, quote_cache>>
    /\ UNCHANGED display

CreateProfile == \E new_p \in NameInputs : CreateNamed(new_p)

\* lines 166-169: the user goes for the delete button; it is there only when
\* delete_shown, and pressing it deletes the active profile
DeleteProfile ==
    /\ init_load
    /\ IF delete_shown(full_data)
        THEN LET r == delete_profile(full_data, current_profile)
             IN  /\ full_data' = r.fd
                 /\ current_profile' = SelectboxSync(r.fd, r.cur)
        ELSE UNCHANGED <<full_data, current_profile>>
    /\ op' = "delete"
    /\ ret' = IF delete_shown(full_data) THEN "deleted" ELSE "no button"
    /\ UNCHANGED <<init_load, remote, has_creds, market, quote_cache>>
    /\ UNCHANGED display

\* lines 175-176: the save button, the request ending as net
SaveWith(net) ==
    /\ init_load
    /\ remote' = RemoteAfterSave(has_creds, net, full_data, remote)
    /\ ret' = IF save_data_to_cloud(has_creds, net, full_data) THEN "True" ELSE "False"
    /\ op' = "save"
    /\ UNCHANGED <<full_data, current_profile, init_load, has_creds, market, quote_cache>>
    /\ UNCHANGED display

CloudSave == \E net \in SaveOutcomes : SaveWith(net)

\* lines 177-179: the load button, the request ending as net, then the
\* re-run's sidebar
LoadWith(net) ==
    /\ init_load
    /\ LET d == load_data_from_cloud(has_creds, net, remote)
           fd == IF d.truthy THEN d.data ELSE full_data
       IN  /\ full_data' = fd
           /\ current_profile' = SelectboxSync(fd, current_profile)
    /\ op' = "load" /\ ret' = "None"
    /\ UNCHANGED <<init_load, remote, has_creds, market, quote_cache>>
    /\ UNCHANGED display

CloudLoad == \E net \in NetOutcomes : LoadWith(net)

\* somebody else (another session, the bin's web console) replaces the record
BinWrite(docs) ==
    /\ has_creds
    /\ \E d \in docs : d # remote /\ remote' = d
    /\ op' = "bin" /\ ret' = "None"
    /\ UNCHANGED <<full_data, current_profile, init_load, has_creds, market, quote_cache>>
    /\ UNCHANGED display

\* lines 192-193: the add button with ticker t, price a[1], quantity a[2]
AddWith(t, a) ==
    /\ op' = "add"
    /\ init_load
    /\ LET r == add_stock(full_data, current_profile, quote_cache, market, t, a[1], a[2])
       IN  /\ full_data' = r.fd
           /\ quote_cache' = r.cache
           /\ ret' = r.result
    /\ UNCHANGED <<current_profile, init_load, remote, has_creds, market>>
    /\ UNCHANGED display

\* the model lets a profile grow to cap holdings
AddStock(raws, args, cap) ==
    /\ Len(get_current_portfolio(full_data, current_profile)) < cap
    /\ \E t \in raws, a \in args : AddWith(t, a)

\* line 190: the CSV button with the text pasted, read as rows
CsvWith(rows) ==
    /\ op' = "csv"
    /\ init_load
    /\ LET r == process_csv(full_data, current_profile, quote_cache, market, rows)
       IN  /\ full_data' = r.fd
           /\ quote_cache' = r.cache
           /\ ret' = [report |-> r.report, cnt |-> r.cnt]
    /\ UNCHANGED <<current_profile, init_load, remote, has_creds, market>>
    /\ UNCHANGED display

ProcessCsv(texts, cap) ==
    \E rows \in texts :
        /\ Len(get_current_portfolio(full_data, current_profile)) + Len(rows) <= cap
        /\ CsvWith(rows)

\* lines 196-198: the refresh button, then the re-run's sidebar
RefreshPrices ==
    /\ init_load
    /\ LET fd == refresh_prices(full_data, current_profile, quote_cache, market)
       IN  /\ full_data' = fd
           /\ current_profile' = SelectboxSync(fd, current_profile)
    /\ op' = IF op \in {"refresh", "refresh again"} THEN "refresh again" ELSE "refresh"
    /\ ret' = "None"
    /\ UNCHANGED <<init_load, remote, has_creds, market, quote_cache>>
    /\ UNCHANGED display

\* lines 329-371: the editor returned edited, which differs from edit_df
EditWith(edited) ==
    /\ op' = "edit" /\ ret' = "None"
    /\ init_load
    /\ LET list == get_current_portfolio(full_data, current_profile)
           fd == update_current_portfolio(full_data, current_profile,
                                          edit_write_back(list, edited))
       IN  /\ edited # EditorRows(list)
           /\ full_data' = fd
           /\ current_profile' = SelectboxSync(fd, current_profile)
    /\ UNCHANGED <<init_load, remote, has_creds, market, quote_cache>>
    /\ UNCHANGED display

\* what the editor can return after one edit of the table of list: some rows
\* deleted, or one cost-basis cell retyped with one of values
EditorResults(list, values) ==
    {RowsDeleted(list, gone) : gone \in (SUBSET (1..Len(list))) \ {{}}}
    \cup {CellEdited(list, i, f, v) :
              i \in 1..Len(list), f \in {"Avg", "Qty"}, v \in values}

\* the table is there only for a non-empty portfolio (line 207) whose
\* dashboard did not raise
TableEdit(values) ==
    /\ get_current_portfolio(full_data, current_profile) # <<>>
    /\ ~DashboardRaises(get_current_portfolio(full_data, current_profile),
                        currency_mode, ex_rate)
    /\ \E edited \in EditorResults(get_current_portfolio(full_data, current_profile),
                                   values) : EditWith(edited)

\* the market moves: the adapter's answer for one ticker changes
MarketMove(answers) ==
    /\ \E t \in DOMAIN market, a \in answers :
        /\ market[t] # a
        /\ market' = [market EXCEPT ![t] = a]
    /\ op' = "market" /\ ret' = "None"
    /\ UNCHANGED <<full_data, current_profile, init_load, remote, has_creds, quote_cache>>
    /\ UNCHANGED display

\* the 60 s TTL of st.cache_data runs out for one cached ticker
CacheExpire ==
    /\ \E t \in DOMAIN quote_cache :
        quote_cache' = [x \in (DOMAIN quote_cache) \ {t} |-> quote_cache[x]]
    /\ op' = "expire" /\ ret' = "None"
    /\ UNCHANGED <<full_data, current_profile, init_load, remote, has_creds, market>>
    /\ UNCHANGED display

\* line 184: the user turns the currency radio
SwitchCurrency ==
    /\ init_load
    /\ currency_mode' = IF currency_mode = "USD ($)" THEN "KRW (₩)" ELSE "USD ($)"
    /\ op' = "currency" /\ ret' = "None"
    /\ UNCHANGED <<full_data, current_profile, init_load, remote, has_creds,
                   market, quote_cache, fx, ex_rate>>

\* the FX adapter answers differently from now on
FxMove(fxs) ==
    /\ \E a \in fxs : a # fx /\ fx' = a
    /\ op' = "fx" /\ ret' = "None"
    /\ UNCHANGED <<full_data, current_profile, init_load, remote, has_creds,
                   market, quote_cache, currency_mode, ex_rate>>

\* line 185 in a script run after the 300 s TTL ran out: the rate is fetched
RateRefresh ==
    /\ init_load
    /\ ex_rate' = get_exchange_rate(fx)
    /\ op' = "rate" /\ ret' = "None"
    /\ UNCHANGED <<full_data, current_profile, init_load, remote, has_creds,
                   market, quote_cache, currency_mode, fx>>

\* lines 203-230: a script run draws the dashboard of the active profile
Dashboard ==
    /\ init_load
    /\ LET list == get_current_portfolio(full_data, current_profile)
       IN  /\ list # <<>>
           /\ ret' = IF DashboardRaises(list, currency_mode, ex_rate)
                        THEN [raises |-> "TypeError"]
                        ELSE dashboard(list, currency_mode, ex_rate)
    /\ op' = "render"
    /\ UNCHANGED <<full_data, current_profile, init_load, remote, has_creds,
                   market, quote_cache>>
    /\ UNCHANGED display

----------------------------------------------------------------------------
\* The session with every handler.  The market knows one ticker and stands
\* still; the other ticker typed is unknown to it.

Init == InitWith(InitRemoteDocs, {<<"A">>}, {AnsLive})

\* the rows pasted in this session
SessionRows ==
    {[Ticker |-> <<" ", "a", " ">>, Price |-> 1, Qty |-> 1],
     [Ticker |-> <<"b">>, Price |-> BadNum, Qty |-> 1]}

Next ==
    \/ Startup
    \/ SelectProfile
    \/ CreateProfile
    \/ DeleteProfile
    \/ CloudSave
    \/ CloudLoad
    \/ AddStock(RawTickers, {<<1, 1>>}, SessionLen)
    \/ ProcessCsv(CsvTexts(SessionRows, SessionLen), SessionLen)
    \/ RefreshPrices
    \/ TableEdit({})

Spec == Init /\ [][Next]_vars

----------------------------------------------------------------------------
\* Profile lifecycle.

ProfileNames == KeySet(full_data.profiles)

\* C1: in every state of a session the active profile name is a key of
\* full_data['profiles'] and the profiles map has at least one key.
C1_ActiveProfileExists ==
    /\ current_profile \in ProfileNames
    /\ ProfileNames # {}

\* C2: deleting a profile when it is the only remaining one is rejected:
\* the profiles map, every holdings list and the active profile name are
\* unchanged by the attempt.
C2_DeleteLastRejected ==
    [][(DeleteProfile /\ Len(full_data.profiles) = 1)
        => (full_data' = full_data /\ current_profile' = current_profile)]_vars

\* the user went for the delete button with a single profile, which holds
\* a lot, in the store
C2_Witness ==
    /\ op = "delete"
    /\ ret = "no button"
    /\ Len(full_data.profiles) = 1
    /\ Len(full_data.profiles[1].v) > 0

\* C3: with two or more profiles, deleting the active profile removes
\* exactly that key, leaves every other profile's holdings list unchanged
\* (and the order of the remaining keys), and makes a remaining key active.
C3_DeleteActive ==
    [][(DeleteProfile /\ Len(full_data.profiles) >= 2)
        => /\ ProfileNames' = ProfileNames \ {current_profile}
           /\ current_profile \in ProfileNames
           /\ \A n \in ProfileNames' :
                DictGet(full_data'.profiles, n, <<>>) = DictGet(full_data.profiles, n, <<>>)
           /\ full_data'.profiles = DictDel(full_data.profiles, current_profile)
           /\ current_profile' \in ProfileNames']_vars

\* a delete left a store whose remaining profile holds a lot
C3_Witness ==
    /\ op = "delete"
    /\ ret = "deleted"
    /\ Len(full_data.profiles) = MaxProfiles - 1
    /\ \E i \in 1..Len(full_data.profiles) : Len(full_data.profiles[i].v) > 0

\* C4: creating a profile whose name already exists fails and leaves the
\* store and the active profile as they are (so does an empty name box);
\* creating a profile with a new name adds exactly one key with an empty
\* holdings list, after the existing profiles, which are left unchanged.
C4_Create ==
    [][\A new_p \in NameInputs :
        CreateNamed(new_p) =>
            IF new_p \in ProfileNames \/ new_p = ""
                THEN full_data' = full_data /\ current_profile' = current_profile
                ELSE full_data'.profiles =
                        Append(full_data.profiles, [k |-> new_p, v |-> <<>>])]_vars

\* a create left a new empty profile beside one that holds a lot
C4_Witness ==
    /\ op = "create"
    /\ ret = "created"
    /\ Len(full_data.profiles) = 2
    /\ full_data.profiles[2].v = <<>>
    /\ full_data.profiles[1].v # <<>>
    /\ current_profile = full_data.profiles[2].k

----------------------------------------------------------------------------
\* The quote lookup on its own: a session whose market answers one ticker
\* with any mix of the three price tiers and never moves, and which only
\* adds that ticker and refreshes.

FetchAnswers ==
    {Answer(raises, last_price, hist, currentPrice, sector, marketCap) :
        raises \in {"none", "fast_info", "history", "info"},
        last_price \in {NoneNum, 0, 1},
        hist \in {<<>>, <<3, 2>>},
        currentPrice \in {Missing, NoneNum, 3},
        sector \in {SectorMissing, "Tech"},
        marketCap \in {CapMissing, CapNone, Cap(250, 0)}}

InitFetch == InitWith({OtherDoc}, {<<"A">>}, FetchAnswers)

NextFetch ==
    \/ Startup
    \/ AddStock({<<" ", "a", " ">>}, {<<1, 1>>}, MaxLen)
    \/ RefreshPrices

SpecFetch == InitFetch /\ [][NextFetch]_vars

\* C5: a quote lookup in which all three price tiers are unavailable is a
\* Failure (valid = False): the add of a ticker for which the adapter has no
\* last price, no intraday history and no currentPrice returns False, so no
\* add stores a Current Price of 0 or null because the price was unknown.
C5_NoPriceIsFailure ==
    (op = "add" /\ NoPriceTier(market[<<"A">>]))
        => /\ ret = "False"
           /\ get_current_portfolio(full_data, current_profile) = <<>>

----------------------------------------------------------------------------
\* Single add and refresh: a session that adds lots and refreshes them while
\* the market moves and cached quotes expire.

QuoteAnswers == {AnsLive, AnsHist, AnsRaise}

\* the record of the bin when such a session starts
QuoteDocs ==
    {OtherDoc,
     LegacyDoc(<<H0>>),
     ProfilesDoc(<<>>),
     ProfilesDoc(<<[k |-> "Default", v |-> <<>>], [k |-> "P", v |-> <<H0>>]>>)}

InitQuotes == InitWith(QuoteDocs, Tickers, QuoteAnswers)

NextQuotes ==
    \/ Startup
    \/ AddStock(RawTickers, AddArgs, MaxLen)
    \/ RefreshPrices
    \/ MarketMove(QuoteAnswers)
    \/ CacheExpire

SpecQuotes == InitQuotes /\ [][NextQuotes]_vars

\* the active profile's list
ActiveList == get_current_portfolio(full_data, current_profile)

\* what the user means by a typed ticker: trimmed and in upper case
Typed(t) ==
    CASE t = <<" ", "a", " ">> -> <<"A">>
      [] t = <<"b">> -> <<"B">>

\* C6: addHolding is all-or-nothing on the active profile: if the quote
\* lookup fails the add returns failure and the store is unchanged; if it
\* succeeds the active profile's list becomes the previous list followed by
\* exactly one new holding with the trimmed, upper-cased ticker, every
\* holding already there (same ticker or not) being kept as it was.
C6_AddAllOrNothing ==
    [][\A t \in RawTickers, a \in AddArgs :
        AddWith(t, a) =>
            IF get_stock_info_cached(quote_cache, market, Typed(t)).valid
                THEN /\ ret' = "True"
                     /\ Len(ActiveList') = Len(ActiveList) + 1
                     /\ SubSeq(ActiveList', 1, Len(ActiveList)) = ActiveList
                     /\ ActiveList'[Len(ActiveList')].Ticker = Typed(t)
                     /\ ActiveList'[Len(ActiveList')].AvgPrice = a[1]
                     /\ ActiveList'[Len(ActiveList')].Quantity = a[2]
                ELSE /\ ret' = "False"
                     /\ full_data' = full_data]_vars

\* an add succeeded and left two lots of one ticker side by side
C6_Witness ==
    /\ op = "add"
    /\ ret = "True"
    /\ Len(ActiveList) = 2
    /\ ActiveList[1].Ticker = ActiveList[2].Ticker
    /\ ActiveList[1] # ActiveList[2]

Refreshed == op \in {"refresh", "refresh again"}

\* the adapter's quote for holding h in the market as it stands
FreshQuote(h) == fetch_stock_data(MarketAnswer(market, h.Ticker))

\* C8: during a refresh a holding whose fetch fails keeps its Current
\* Price, Sector and Market Cap Class, and every holding whose fetch
\* succeeds ends with the price, sector and class the adapter returned for
\* it (not the cached quote), wherever the failing holding sits.
C8_RefreshPerHolding ==
    [][RefreshPrices =>
        /\ Len(ActiveList') = Len(ActiveList)
        /\ \A i \in 1..Len(ActiveList) :
            IF FreshQuote(ActiveList[i]).valid
                THEN /\ ActiveList'[i].CurrentPrice = FreshQuote(ActiveList[i]).current_price
                     /\ ActiveList'[i].Sector = FreshQuote(ActiveList[i]).sector
                     /\ ActiveList'[i].MarketCapClass =
                            FreshQuote(ActiveList[i]).market_cap_class
                ELSE /\ ActiveList'[i].CurrentPrice = ActiveList[i].CurrentPrice
                     /\ ActiveList'[i].Sector = ActiveList[i].Sector
                     /\ ActiveList'[i].MarketCapClass = ActiveList[i].MarketCapClass]_vars

\* a refresh went over a lot whose fetch failed and then a lot whose fetch
\* succeeded, while the cache still held another quote for the latter
C8_Witness ==
    /\ Refreshed
    /\ Len(ActiveList) = 2
    /\ ~FreshQuote(ActiveList[1]).valid
    /\ FreshQuote(ActiveList[2]).valid
    /\ ActiveList[2].CurrentPrice = FreshQuote(ActiveList[2]).current_price
    /\ ActiveList[2].Ticker \in DOMAIN quote_cache
    /\ quote_cache[ActiveList[2].Ticker] # FreshQuote(ActiveList[2])

\* C9: refresh preserves cost basis and shape: Ticker, Avg Price and
\* Quantity of every holding of the active profile are the same before and
\* after, and the list keeps its length and order, whatever the fetches do.
C9_RefreshKeepsCostBasis ==
    [][RefreshPrices =>
        /\ Len(ActiveList') = Len(ActiveList)
        /\ \A i \in 1..Len(ActiveList) :
            /\ ActiveList'[i].Ticker = ActiveList[i].Ticker
            /\ ActiveList'[i].AvgPrice = ActiveList[i].AvgPrice
            /\ ActiveList'[i].Quantity = ActiveList[i].Quantity]_vars

\* a refresh went over two different lots, one fetched and one not, whose
\* avg price is not the price fetched
C9_Witness ==
    /\ Refreshed
    /\ Len(ActiveList) = 2
    /\ FreshQuote(ActiveList[1]).valid
    /\ ~FreshQuote(ActiveList[2]).valid
    /\ ActiveList[1].CurrentPrice = FreshQuote(ActiveList[1]).current_price
    /\ ActiveList[1].AvgPrice # ActiveList[1].CurrentPrice
    /\ ActiveList[1].Ticker # ActiveList[2].Ticker

\* C10: refresh is idempotent: a refresh that follows a refresh, the market
\* answering as before, leaves the whole store as the first one left it.
C10_RefreshIdempotent ==
    [][(RefreshPrices /\ Refreshed) => full_data' = full_data]_vars

\* a second refresh in a row went over a list with a fetched and an
\* unfetched lot
C10_Witness ==
    /\ op = "refresh again"
    /\ \E i, j \in 1..Len(ActiveList) :
        /\ FreshQuote(ActiveList[i]).valid
        /\ ~FreshQuote(ActiveList[j]).valid

----------------------------------------------------------------------------
\* Batch add: a session that pastes batches while the market moves and
\* cached quotes expire.

CsvAnswers == {AnsLive, AnsRaise}

InitCsv == InitWith(QuoteDocs, Tickers, CsvAnswers)

NextCsv ==
    \/ Startup
    \/ ProcessCsv(CsvTexts(CsvRowSet(RawTickers), MaxRows), MaxLen)
    \/ MarketMove(CsvAnswers)
    \/ CacheExpire

SpecCsv == InitCsv /\ [][NextCsv]_vars

\* a pasted row is well formed: three columns, numeric price and quantity
WellFormed(row) == row.Price \notin {NaN, BadNum} /\ row.Qty \notin {NaN, BadNum}

\* C7: batch add never aborts on a single bad row: each row that is
\* malformed or whose quote lookup fails is skipped, every well-formed row
\* with a resolvable ticker (also after a bad one) is appended in input
\* order, and the success count reported equals the number appended.
C7_BatchNeverAborts ==
    [][\A rows \in CsvTexts(CsvRowSet(RawTickers), MaxRows) :
        (rows # <<>> /\ CsvWith(rows)) =>
            LET good == SelectSeq(rows, LAMBDA r :
                            /\ WellFormed(r)
                            /\ get_stock_info_cached(quote_cache, market,
                                                     Typed(r.Ticker)).valid)
            IN  /\ Len(ActiveList') = Len(ActiveList) + Len(good)
                /\ SubSeq(ActiveList', 1, Len(ActiveList)) = ActiveList
                /\ \A j \in 1..Len(good) :
                    /\ ActiveList'[Len(ActiveList) + j].Ticker = Typed(good[j].Ticker)
                    /\ ActiveList'[Len(ActiveList) + j].AvgPrice = good[j].Price
                    /\ ActiveList'[Len(ActiveList) + j].Quantity = good[j].Qty
                /\ ret'.report = "count"
                /\ ret'.cnt = Len(good)]_vars

----------------------------------------------------------------------------
\* Cloud sync: a session that saves and loads while the store changes and
\* somebody else writes the bin.

H1 == Holding(<<"B">>, 2, 1, 1, "Energy", "Mid Cap")

CloudDocs ==
    {OtherDoc,
     LegacyDoc(<<>>),
     LegacyDoc(<<H0, H1>>),
     ProfilesDoc(<<>>),
     ProfilesDoc(<<[k |-> "Default", v |-> <<H1>>], [k |-> "P", v |-> <<H0, H1>>]>>)}

InitCloud == InitWith(CloudDocs, {<<"A">>}, {AnsLive})

NextCloud ==
    \/ Startup
    \/ SelectProfile
    \/ CreateProfile
    \/ DeleteProfile
    \/ CloudSave
    \/ CloudLoad
    \/ BinWrite(CloudDocs)
    \/ AddStock(RawTickers, {<<1, 1>>}, SessionLen)

SpecCloud == InitCloud /\ [][NextCloud]_vars

\* C11: loading a record of the legacy shape {"portfolio": [h1..hn]} gives
\* {"profiles": {"Default": [h1..hn]}}, same holdings in the same order, and
\* no load (at startup or by the button) changes the remote record.
C11_LegacyMigration ==
    [][\A net \in NetOutcomes :
        (StartupWith(net) \/ LoadWith(net)) =>
            /\ remote' = remote
            /\ (has_creds /\ net = "ok" /\ remote.kind = "legacy")
                => full_data' =
                    [profiles |-> <<[k |-> "Default", v |-> remote.portfolio]>>]]_vars

\* a load by the button migrated a two-holding legacy record into a store
\* that somebody had written over
C11_Witness ==
    /\ op = "load"
    /\ remote = LegacyDoc(<<H0, H1>>)
    /\ full_data = [profiles |-> <<[k |-> "Default", v |-> <<H0, H1>>]>>]
    /\ current_profile = "Default"

----------------------------------------------------------------------------
\* load_data_from_cloud as a function of the credentials, the outcome of the
\* request and the record of the bin, the record being any JSON the bin may
\* hold: also a "profiles" map whose lists hold objects that are no holdings.

\* a JSON object that is no holding
Junk == [junk |-> TRUE]

HoldingKeys == {"Ticker", "AvgPrice", "Quantity", "CurrentPrice", "Sector", "MarketCapClass"}

\* the lists a record may hold
LoadLists == {<<>>, <<H0>>, <<H0, H1>>, <<Junk>>, <<H0, Junk>>}

LoadDocs ==
    {OtherDoc}
    \cup {LegacyDoc(l) : l \in {<<>>, <<H0>>, <<H0, H1>>}}
    \cup {ProfilesDoc(<<>>)}
    \cup {ProfilesDoc(<<[k |-> "P", v |-> l]>>) : l \in LoadLists}
    \cup {ProfilesDoc(<<[k |-> "Default", v |-> l1], [k |-> "P", v |-> l2]>>) :
              l1 \in LoadLists, l2 \in LoadLists}

InitLoad ==
    /\ has_creds \in BOOLEAN
    /\ remote \in LoadDocs
    /\ full_data = DefaultData
    /\ current_profile = "Default"
    /\ init_load = FALSE
    /\ market = <<>>
    /\ quote_cache = <<>>
    /\ currency_mode = "USD ($)"
    /\ fx = FxLive
    /\ ex_rate = NoneNum
    /\ op = "init"
    /\ ret = "None"

\* line 92: cloud_data = load_data_from_cloud(), the request ending as net
LoadCall(net) ==
    /\ op = "init"
    /\ op' = "load_data_from_cloud"
    /\ ret' = [net |-> net, out |-> load_data_from_cloud(has_creds, net, remote)]
    /\ UNCHANGED <<full_data, current_profile, init_load, remote, has_creds,
                   market, quote_cache>>
    /\ UNCHANGED display

NextLoad == \E net \in NetOutcomes : LoadCall(net)

SpecLoad == InitLoad /\ [][NextLoad]_vars

\* d is a profiles map of name to holdings list
IsProfilesMap(d) ==
    \A i \in 1..Len(d) : \A j \in 1..Len(d[i].v) : DOMAIN d[i].v[j] = HoldingKeys

\* C12: with the bin configured, load degrades to the empty default:
\* whenever the record is absent or malformed (neither a legacy list nor a
\* well-formed profiles map), the status is not 200 or the request raises,
\* load returns exactly {"profiles": {"Default": []}}; so every document
\* load returns carries a profiles map of name to holdings list.
C12_LoadDegrades ==
    (op = "load_data_from_cloud" /\ has_creds) =>
        /\ ret.out.truthy
        /\ (\/ ret.net # "ok"
            \/ remote.kind = "other"
            \/ remote.kind = "profiles" /\ ~IsProfilesMap(remote.profiles))
                => ret.out.data = DefaultData
        /\ IsProfilesMap(ret.out.data.profiles)

----------------------------------------------------------------------------
\* Save and load in the session that syncs with the bin (SpecCloud).

\* C13: round trip: a successful save directly followed by a load that
\* gets the record (nobody writing the bin in between) yields a store with
\* the same set of profile names and, for each of them, the same holdings
\* in the same order.
C13_RoundTrip ==
    [][(op = "save" /\ ret = "True" /\ LoadWith("ok")) =>
        /\ KeySet(full_data'.profiles) = KeySet(full_data.profiles)
        /\ \A name \in KeySet(full_data.profiles) :
            DictGet(full_data'.profiles, name, <<>>)
                = DictGet(full_data.profiles, name, <<>>)]_vars

\* C14: a save commits no partial write and reports failure when it
\* fails: after any save the remote record is either exactly the snapshot of
\* the whole store or exactly what it was, save returns success only when it
\* is the snapshot, it returns failure without credentials, on a status
\* other than 200 and when the request raises, and the in-memory store is
\* unchanged.
C14_SaveAtomic ==
    [][\A net \in SaveOutcomes :
        SaveWith(net) =>
            /\ remote' \in {remote, JsonBody(full_data)}
            /\ (ret' = "True") => remote' = JsonBody(full_data)
            /\ (~has_creds \/ net # "ok") => (ret' = "False")
            /\ full_data' = full_data
            /\ current_profile' = current_profile]_vars

\* a save was refused by the bin, which kept another record than the
\* two-profile store of the session
C14_Witness ==
    /\ op = "save"
    /\ ret = "False"
    /\ has_creds
    /\ Len(full_data.profiles) = 2
    /\ remote # JsonBody(full_data)
    /\ \E i \in 1..2 : full_data.profiles[i].v # <<>>

----------------------------------------------------------------------------
\* Valuation: the dashboard of a started session as a function of the
\* active profile's list, the display currency and the rate.

ValHoldings ==
    {Holding(<<"A">>, avg, qty, price, "Tech", "Mega Cap") :
        avg \in {0, 2}, qty \in {0, 1}, price \in {1, 3}}

ValLists == {<<h>> : h \in ValHoldings} \cup {<<h1, h2>> : h1, h2 \in ValHoldings}

InitValuation ==
    /\ full_data \in {[profiles |-> <<[k |-> "Default", v |-> list]>>] : list \in ValLists}
    /\ current_profile = "Default"
    /\ init_load = TRUE
    /\ has_creds = FALSE
    /\ remote = OtherDoc
    /\ market = <<>>
    /\ quote_cache = <<>>
    /\ currency_mode \in {"USD ($)", "KRW (₩)"}
    /\ fx = FxLive
    /\ ex_rate = get_exchange_rate(FxLive)
    /\ op = "init"
    /\ ret = "None"

NextValuation == Dashboard

SpecValuation == InitValuation /\ [][NextValuation]_vars

\* C15: the return percentage shown is 0 whenever the invested base amount
\* is 0 (never inf or nan), for every holding row (Avg Price * Quantity = 0)
\* and for the aggregate (sum of the invested amounts = 0); otherwise it is
\* pnl / invested * 100 of the USD figures, whatever the display currency.
C15_ReturnZeroOnZeroBase ==
    (op = "render") =>
        LET inv(h) == h.AvgPrice * h.Quantity
            pnl(h) == h.CurrentPrice * h.Quantity - inv(h)
            sum_inv == SeriesSum([i \in 1..Len(ActiveList) |-> Frac(inv(ActiveList[i]), 1)]).n
            sum_pnl == SeriesSum([i \in 1..Len(ActiveList) |-> Frac(pnl(ActiveList[i]), 1)]).n
        IN  /\ \A i \in 1..Len(ActiveList) :
                ret.rows[i].Return =
                    IF inv(ActiveList[i]) = 0 THEN Frac(0, 1)
                    ELSE Frac(pnl(ActiveList[i]) * 100, inv(ActiveList[i]))
            /\ ret.tot_ret =
                    IF sum_inv = 0 THEN Frac(0, 1) ELSE Frac(sum_pnl * 100, sum_inv)

----------------------------------------------------------------------------
\* The table: a session that looks at a loaded portfolio in both
\* currencies, while the rate moves, and edits it.  The record of the bin
\* has two lots of one ticker with different metadata and a holding whose
\* Current Price is null.

FxAnswers ==
    {FxLive, FxAnswer(TRUE, Missing), FxAnswer(FALSE, NoneNum), FxAnswer(FALSE, Missing)}

\* a second lot of A, bought and classified at another time
H2 == Holding(<<"A">>, 2, 2, 3, "Energy", "Mid Cap")

HNull == Holding(<<"B">>, 1, 1, NoneNum, "Others", "Unknown")

TableDocs ==
    {OtherDoc,
     ProfilesDoc(<<[k |-> "Default", v |-> <<H0, H2, HNull>>]>>)}

\* what the user types into a cost-basis cell
TableValues == {3}

InitTable == InitSession(TableDocs, {<<"A">>}, {AnsLive}, FxAnswers)

NextTable ==
    \/ Startup
    \/ SwitchCurrency
    \/ FxMove(FxAnswers)
    \/ RateRefresh
    \/ Dashboard
    \/ TableEdit(TableValues)

SpecTable == InitTable /\ [][NextTable]_vars

\* C16: display-currency figures are never written back: switching the
\* display currency, a change of the rate and a render change no field of
\* the store, and after a table edit every stored Avg Price is the USD cell
\* of the editor and every stored Current Price is the USD price the
\* holding had (a null price staying not-a-number), never a multiple of the
\* exchange rate.
C16_UsdOnly ==
    [][/\ (op' \in {"currency", "fx", "rate", "render"}) => full_data' = full_data
       /\ \A edited \in EditorResults(ActiveList, TableValues) :
            EditWith(edited) =>
                /\ Len(ActiveList') = Len(edited)
                /\ \A j \in 1..Len(edited) :
                    /\ ActiveList'[j].AvgPrice = edited[j].Avg
                    /\ ActiveList'[j].CurrentPrice \in
                        (IF ActiveList[edited[j].index].CurrentPrice = NoneNum
                            THEN {NoneNum, NaN}
                            ELSE {ActiveList[edited[j].index].CurrentPrice})]_vars

\* an avg price was typed while the table showed won at 1300 to the dollar
C16_Witness ==
    /\ op = "edit"
    /\ currency_mode = "KRW (₩)"
    /\ ex_rate = 1300
    /\ \E i \in 1..Len(ActiveList) :
        /\ ActiveList[i].AvgPrice \in TableValues
        /\ ActiveList[i].CurrentPrice = 2

\* C17: a table edit changes only cost-basis fields and row membership:
\* every surviving holding keeps its own Ticker, Current Price, Sector and
\* Market Cap Class and its relative order, exactly the deleted rows are
\* gone, also when several lots share a ticker.
C17_EditKeepsMetadata ==
    [][\A edited \in EditorResults(ActiveList, TableValues) :
        EditWith(edited) =>
            /\ Len(ActiveList') = Len(edited)
            /\ \A j \in 1..Len(edited) :
                /\ ActiveList'[j].Ticker = ActiveList[edited[j].index].Ticker
                /\ ActiveList'[j].CurrentPrice = ActiveList[edited[j].index].CurrentPrice
                /\ ActiveList'[j].Sector = ActiveList[edited[j].index].Sector
                /\ ActiveList'[j].MarketCapClass
                        = ActiveList[edited[j].index].MarketCapClass]_vars

\* C18: get_exchange_rate always succeeds: whatever the FX adapter does
\* (gives a rate, raises, has no price to give) the rate the script runs use
\* is a number, never null, and it is the default 1400 when the adapter
\* raises.
C18_RateAlwaysNumeric ==
    [][(Startup \/ RateRefresh) =>
        /\ ex_rate' \notin {NoneNum, NaN, Missing}
        /\ fx.raises => ex_rate' = DefaultRate]_vars

----------------------------------------------------------------------------
\* The classifier, as fetch_stock_data calls it (line 77): a session that
\* adds one ticker whose fundamentals carry a market cap around each
\* threshold of the table.

ClassifyCaps ==
    {CapNone, CapMissing}
    \cup {Cap(b, r) : b \in {0, 1, 2, 9, 10, 199, 200, 250},
                      r \in {0, 299999999, 300000000, 999999999}}

ClassifyAnswers == {Answer("none", 1, <<>>, 1, "Tech", cap) : cap \in ClassifyCaps}

InitClassify == InitWith({OtherDoc}, {<<"A">>}, ClassifyAnswers)

NextClassify ==
    \/ Startup
    \/ AddStock({<<" ", "a", " ">>}, {<<1, 1>>}, SessionLen)

SpecClassify == InitClassify /\ [][NextClassify]_vars

\* the threshold table of the specification for m = b * 10^9 + r dollars
\* (0 <= r < 10^9), null or an absent figure counting as 0
ClassOf(m) ==
    CASE m \in {CapNone, CapMissing, Cap(0, 0)} -> "Unknown"
      [] m.b >= 200 -> "Mega Cap"
      [] m.b >= 10 /\ m.b < 200 -> "Large Cap"
      [] m.b >= 2 /\ m.b < 10 -> "Mid Cap"
      [] m.b = 1 \/ (m.b = 0 /\ m.r >= 300000000) -> "Small Cap"
      [] m.b = 0 /\ m.r > 0 /\ m.r < 300000000 -> "Micro Cap"

\* C19: the classifier evaluates its threshold table top-down with
\* inclusive lower bounds: null or 0 gives Unknown, m >= 200e9 Mega,
\* 10e9 <= m < 200e9 Large, 2e9 <= m < 10e9 Mid, 0.3e9 <= m < 2e9 Small, any
\* other m Micro; 199,999,999,999 is Large and 200,000,000,000 is Mega.
C19_Classifier ==
    /\ (op = "add" /\ ret = "True") =>
            ActiveList[Len(ActiveList)].MarketCapClass
                = ClassOf(market[<<"A">>].info.marketCap)
    /\ classify_market_cap(Cap(199, 999999999)) = "Large Cap"
    /\ classify_market_cap(Cap(200, 0)) = "Mega Cap"
    /\ classify_market_cap(Cap(0, 0)) = "Unknown"
    /\ classify_market_cap(CapNone) = "Unknown"

\* a ticker worth exactly 200 billions was added as a Mega Cap
C19_Witness ==
    /\ op = "add"
    /\ ret = "True"
    /\ market[<<"A">>].info.marketCap = Cap(200, 0)
    /\ ActiveList[Len(ActiveList)].MarketCapClass = "Mega Cap"

\* C20: profile isolation: single add, batch add, refresh and table edit
\* change only the holdings list of the active profile: the set of profile
\* names and the list of every other profile are the same before and
\* after, in every reachable state.
C20_ProfileIsolation ==
    [][(op' \in {"add", "csv", "refresh", "refresh again", "edit"}) =>
        /\ KeySet(full_data'.profiles) = KeySet(full_data.profiles)
        /\ \A name \in KeySet(full_data.profiles) \ {current_profile} :
            DictGet(full_data'.profiles, name, <<>>)
                = DictGet(full_data.profiles, name, <<>>)]_vars

====
